---- MODULE Spec2Model ----
(***************************************************************************)
(* Model of the HashiCorp Vault transit signing client of tmkms:           *)
(* src/keyring/providers/hashicorp/client.rs (TendermintValidatorApp).     *)
(*                                                                         *)
(* Text (Rust String / &str) is a sequence of one-character strings, raw   *)
(* data (Vec<u8>, [u8; N]) is a sequence of integers in 0..255.            *)
(* The transport (hashicorp_vault::Client) is external: every response it  *)
(* hands back is an input chosen from a finite set of response shapes.     *)
(***************************************************************************)
EXTENDS Integers, Sequences, FiniteSets, TLC

VARIABLES app, requests, last_request, last, calls, first_public_key

vars == <<app, requests, last_request, last, calls, first_public_key>>

----------------------------------------------------------------------------
(* Bounds of the model *)

\* number of operations invoked in one run
MaxCalls == 4

----------------------------------------------------------------------------
(* Program constants *)

PUBLIC_KEY_SIZE == 32
SIGNATURE_SIZE == 64

\* a string as a sequence of its characters
Chars(s) == [i \in 1..Len(s) |-> SubSeq(s, i, i)]

CONSENUS_KEY_TYPE == Chars("ed25519")

----------------------------------------------------------------------------
(* Result<T, Error>, and a panic: it unwinds out of the call and leaves    *)
(* the client as it was, usable by an owner that survives the unwinding    *)

Ok(v) == [kind |-> "Ok", error |-> "", value |-> v]
Err(e) == [kind |-> "Err", error |-> e, value |-> <<>>]
Panic == [kind |-> "Panic", error |-> "", value |-> <<>>]

\* Option<[u8; PUBLIC_KEY_SIZE]>::None
None == [some |-> FALSE, v |-> <<>>]
Some(x) == [some |-> TRUE, v |-> x]

----------------------------------------------------------------------------
(* base64 (standard alphabet, '=' padding), as base64::encode / decode *)

Alphabet ==
    Chars("ABCDEFGHIJKLMNOPQRSTUVWXYZabcdefghijklmnopqrstuvwxyz0123456789+/")

Pow2(n) == IF n = 0 THEN 1 ELSE IF n = 2 THEN 4 ELSE IF n = 4 THEN 16
           ELSE IF n = 6 THEN 64 ELSE IF n = 8 THEN 256 ELSE 1024

\* the 6-bit value of an alphabet character
Base64Index(c) == (CHOOSE i \in 1..64 : Alphabet[i] = c) - 1

IsAlphabet(c) == \E i \in 1..64 : Alphabet[i] = c

\* number of trailing '=' characters
PadCount(s) ==
    IF Len(s) >= 2 /\ s[Len(s)] = "=" /\ s[Len(s) - 1] = "=" THEN 2
    ELSE IF Len(s) >= 1 /\ s[Len(s)] = "=" THEN 1
    ELSE 0

\* the bytes encoded by the sextets sx (whole bytes only)
BytesOfSextets(sx) ==
    LET at(i) == IF i <= Len(sx) THEN sx[i] ELSE 0
    IN [k \in 1..((Len(sx) * 6) \div 8) |->
          LET bit == 8 * (k - 1)
              i == (bit \div 6) + 1
              r == bit % 6
          IN ((at(i) * 64 + at(i + 1)) \div Pow2(4 - r)) % 256]

\* the bits left over after the last whole byte must be zero
TrailingBitsZero(sx) ==
    LET rem == (Len(sx) * 6) % 8
    IN rem = 0 \/ sx[Len(sx)] % Pow2(rem) = 0

\* base64::decode: Ok(bytes) or Err(DecodeError).  The padding has to be
\* canonical: the text, '=' included, is a whole number of 4-character
\* groups, so text without its padding is refused (InvalidPadding)
Base64Decode(s) ==
    LET pad == PadCount(s)
        body == SubSeq(s, 1, Len(s) - pad)
    IN IF \E i \in 1..Len(body) : ~IsAlphabet(body[i])
         THEN Err("DecodeError")
       ELSE IF Len(s) % 4 # 0
         THEN Err("DecodeError")
       ELSE LET sx == [i \in 1..Len(body) |-> Base64Index(body[i])]
            IN IF TrailingBitsZero(sx) THEN Ok(BytesOfSextets(sx))
               ELSE Err("DecodeError")

\* base64::encode: padded to a multiple of four characters
Base64Encode(b) ==
    LET at(i) == IF i <= Len(b) THEN b[i] ELSE 0
        nchars == (Len(b) * 8 + 5) \div 6
        total == ((Len(b) + 2) \div 3) * 4
    IN [k \in 1..total |->
          IF k > nchars THEN "="
          ELSE LET bit == 6 * (k - 1)
                   i == (bit \div 8) + 1
                   r == bit % 8
               IN Alphabet[(((at(i) * 256 + at(i + 1)) \div Pow2(10 - r)) % 64) + 1]]

----------------------------------------------------------------------------
(* str::split, str::lines, BTreeMap *)

\* s.split(sep).collect::<Vec<&str>>()
RECURSIVE Split(_, _)
Split(s, sep) ==
    IF \A i \in 1..Len(s) : s[i] # sep THEN <<s>>
    ELSE LET i == CHOOSE j \in 1..Len(s) :
                      s[j] = sep /\ \A k \in 1..(j - 1) : s[k] # sep
         IN <<SubSeq(s, 1, i - 1)>> \o Split(SubSeq(s, i + 1, Len(s)), sep)

\* s.lines(): split at "\n", no empty line after a final "\n"; a line
\* ended by "\r\n" loses the "\r" too, a last line that no "\n" ends is
\* kept as it is
Lines(s) ==
    LET parts == Split(s, "\n")
        kept == IF parts[Len(parts)] = <<>>
                  THEN SubSeq(parts, 1, Len(parts) - 1) ELSE parts
    IN [i \in 1..Len(kept) |->
          LET l == kept[i]
          IN IF i < Len(parts) /\ Len(l) > 0 /\ l[Len(l)] = "\r"
               THEN SubSeq(l, 1, Len(l) - 1)
             ELSE l]

\* Iterator::nth(n), n counted from zero
Nth(seq, n) == IF n + 1 <= Len(seq) THEN Some(seq[n + 1]) ELSE None

\* the BTreeMap<usize, V> a JSON object deserializes to: entries are
\* inserted in the order of the response, a repeated key keeps the later one
BTreeMapOf(entries) ==
    [k \in {entries[i][1] : i \in 1..Len(entries)} |->
        LET i == CHOOSE j \in 1..Len(entries) :
                     /\ entries[j][1] = k
                     /\ \A m \in (j + 1)..Len(entries) : entries[m][1] # k
        IN entries[i][2]]

\* IterLast with a fault: the entry that comes first in key order
IterFirst(map) ==
    IF DOMAIN map = {} THEN None
    ELSE LET k == CHOOSE x \in DOMAIN map : \A y \in DOMAIN map : x <= y
         IN Some(<<k, map[k]>>)

\* map.iter().last(): a BTreeMap iterates in ascending key order
IterLast(map) ==
    IF DOMAIN map = {} THEN None
    ELSE LET k == CHOOSE x \in DOMAIN map : \A y \in DOMAIN map : y <= x
         IN Some(<<k, map[k]>>)

----------------------------------------------------------------------------
(* What call_endpoint hands back *)

\* Err(hashicorp_vault::Error): transport, HTTP status or deserialization
TransportErr == [kind |-> "Err", data |-> None]
\* Ok(EndpointResponse::Empty)
EmptyResponse == [kind |-> "Empty", data |-> None]
\* Ok(EndpointResponse::VaultResponse(VaultResponse { data: None, .. }))
NoData == [kind |-> "VaultResponse", data |-> None]
\* Ok(EndpointResponse::VaultResponse(VaultResponse { data: Some(d), .. }))
WithData(d) == [kind |-> "VaultResponse", data |-> Some(d)]

\* no request was issued, so no response was consumed
NoResponse == [kind |-> "NoRequest", data |-> None]

\* the pattern EndpointResponse::VaultResponse(VaultResponse { data: Some(_), .. })
HasData(resp) == resp.kind = "VaultResponse" /\ resp.data.some

----------------------------------------------------------------------------
(* The operations of TendermintValidatorApp.  Each yields the value       *)
(* returned, the client afterwards and whether a request was issued.       *)

NoApp == [connected |-> FALSE, key_name |-> "", public_key_value |-> None]

Outcome(ret, self, sent) == [ret |-> ret, self |-> self, sent |-> sent]

\* connect: client_new is the result of Client::new(host, token)
connect(key_name, client_new) ==
    IF client_new = "Err" THEN Outcome(Err("ApiClientError"), NoApp, FALSE)
    ELSE Outcome(Ok(<<>>),
                 [connected |-> TRUE, key_name |-> key_name,
                  public_key_value |-> None],
                 FALSE)

\* the checked slice &v[..n]: Some(first n elements), None where it panics
SliceTo(v, n) == IF n <= Len(v) THEN Some(SubSeq(v, 1, n)) ELSE None

\* latest_public_key with a fault: the key type of the entry is not checked
latest_public_key_AnyType(keys) ==
    LET key_data == IterLast(keys)
    IN IF ~key_data.some THEN Err("InvalidPubKey")
       ELSE IF "public_key" \notin DOMAIN key_data.v[2] THEN Err("InvalidPubKey")
       ELSE Ok(key_data.v[2]["public_key"])

\* public_key, "latest version": the base64 text of the newest entry, once
\* its fields are there and its key type is the consensus key type
latest_public_key(keys) ==
    LET key_data == IterLast(keys)
    IN IF ~key_data.some THEN Err("InvalidPubKey")
       ELSE LET map == key_data.v[2]
            IN IF "public_key" \notin DOMAIN map THEN Err("InvalidPubKey")
               ELSE IF "name" \notin DOMAIN map THEN Err("InvalidPubKey")
               ELSE IF CONSENUS_KEY_TYPE # map["name"] THEN Err("InvalidPubKey")
               ELSE Ok(map["public_key"])

\* public_key, decoding: base64::decode(pubk)?, then the first
\* PUBLIC_KEY_SIZE bytes are copied into the array
decode_public_key(pubk) ==
    LET decoded == Base64Decode(pubk)
    IN IF decoded.kind = "Err" THEN Err("DecodeError")
       ELSE LET array == SliceTo(decoded.value, PUBLIC_KEY_SIZE)
            IN IF array.some THEN Ok(array.v) ELSE Panic

\* cache_public_key with a fault: the value is returned and not stored
cache_public_key_Forgotten(self, array) == Outcome(Ok(array), self, TRUE)

\* public_key, "cache it...": store the array, then return it
cache_public_key(self, array) ==
    Outcome(Ok(array), [self EXCEPT !.public_key_value = Some(array)], TRUE)

\* public_key past the cache: the request and what is made of the response
public_key_fetch(self, resp) ==
    IF resp.kind = "Err" THEN Outcome(Err("ApiClientError"), self, TRUE)
    ELSE IF ~HasData(resp) THEN Outcome(Err("InvalidPubKey"), self, TRUE)
    ELSE LET pubk == latest_public_key(BTreeMapOf(resp.data.v.keys))
         IN IF pubk.kind # "Ok" THEN Outcome(pubk, self, TRUE)
            ELSE LET array == decode_public_key(pubk.value)
                 IN IF array.kind # "Ok" THEN Outcome(array, self, TRUE)
                    ELSE cache_public_key(self, array.value)

\* public_key with a fault: the cache is not consulted
public_key_NoCache(self, resp) == public_key_fetch(self, resp)

public_key(self, resp) ==
    IF self.public_key_value.some
      THEN Outcome(Ok(self.public_key_value.v), self, FALSE)
    ELSE public_key_fetch(self, resp)

\* parse_signature with a fault: the part after the first ':' is decoded
parse_signature_SecondPart(signature_tag) ==
    LET parts == Split(signature_tag, ":")
    IN IF Len(parts) # 3 THEN Err("InvalidSignature")
       ELSE LET signature == Base64Decode(parts[2])
            IN IF signature.kind = "Err" THEN Err("DecodeError")
               ELSE IF Len(signature.value) # 64 THEN Err("InvalidSignature")
               ELSE Ok(signature.value)

\* parse_signature with a fault: only a signature that is too short is refused
parse_signature_Truncating(signature_tag) ==
    LET parts == Split(signature_tag, ":")
    IN IF Len(parts) # 3 THEN Err("InvalidSignature")
       ELSE LET signature == Base64Decode(parts[Len(parts)])
            IN IF signature.kind = "Err" THEN Err("DecodeError")
               ELSE IF Len(signature.value) < 64 THEN Err("InvalidSignature")
               ELSE Ok(SubSeq(signature.value, 1, SIGNATURE_SIZE))

\* sign, from data.signature to the array returned
parse_signature(signature_tag) ==
    LET parts == Split(signature_tag, ":")
    IN IF Len(parts) # 3 THEN Err("InvalidSignature")
       ELSE LET signature == Base64Decode(parts[Len(parts)])
            IN IF signature.kind = "Err" THEN Err("DecodeError")
               ELSE IF Len(signature.value) # 64 THEN Err("InvalidSignature")
               ELSE LET array == SliceTo(signature.value, SIGNATURE_SIZE)
                    IN IF array.some THEN Ok(array.v) ELSE Panic

\* sign_request with a fault: a response without data is read as a
\* signature that is not valid
sign_request_NoDataIsInvalid(self, message, resp) ==
    IF resp.kind = "Err" THEN Outcome(Err("ApiClientError"), self, TRUE)
    ELSE IF ~HasData(resp) THEN Outcome(Err("InvalidSignature"), self, TRUE)
    ELSE Outcome(parse_signature(resp.data.v.signature), self, TRUE)

\* sign past the check of the message: the request and its response
sign_request(self, message, resp) ==
    IF resp.kind = "Err" THEN Outcome(Err("ApiClientError"), self, TRUE)
    ELSE IF ~HasData(resp) THEN Outcome(Err("NoSignature"), self, TRUE)
    ELSE Outcome(parse_signature(resp.data.v.signature), self, TRUE)

\* sign with a fault: an empty message is sent like any other
sign_NoEmptyCheck(self, message, resp) == sign_request(self, message, resp)

sign(self, message, resp) ==
    IF message = <<>> THEN Outcome(Err("InvalidEmptyMessage"), self, FALSE)
    ELSE sign_request(self, message, resp)

wrapping_key(self, resp) ==
    IF resp.kind = "Err"
      THEN Outcome(Err("ApiClientError"), self, TRUE)
    ELSE IF HasData(resp)
      THEN LET key == Nth(Lines(resp.data.v.public_key), 1)
           IN IF key.some THEN Outcome(Ok(key.v), self, TRUE)
              ELSE Outcome(Err("InvalidPubKey"), self, TRUE)
    ELSE Outcome(Err("InvalidPubKey"), self, TRUE)

\* export_key with a fault: the name of the exported key is taken for the
\* name of the signing key
export_key_RenamesKey(self, key_type, key_name, resp) ==
    LET renamed == [self EXCEPT !.key_name = key_name]
    IN IF resp.kind = "Err"
         THEN Outcome(Err("ApiClientError"), renamed, TRUE)
       ELSE IF HasData(resp)
         THEN LET key == IterLast(BTreeMapOf(resp.data.v.keys))
              IN IF key.some THEN Outcome(Ok(key.v[2]), renamed, TRUE)
                 ELSE Outcome(Err("InvalidPubKey"), renamed, TRUE)
       ELSE Outcome(Err("InvalidPubKey"), renamed, TRUE)

export_key(self, key_type, key_name, resp) ==
    IF resp.kind = "Err"
      THEN Outcome(Err("ApiClientError"), self, TRUE)
    ELSE IF HasData(resp)
      THEN LET key == IterLast(BTreeMapOf(resp.data.v.keys))
           IN IF key.some THEN Outcome(Ok(key.v[2]), self, TRUE)
              ELSE Outcome(Err("InvalidPubKey"), self, TRUE)
    ELSE Outcome(Err("InvalidPubKey"), self, TRUE)

----------------------------------------------------------------------------
(* Inputs: what callers pass and what the remote service answers *)

KeyNames == {"test-key-name", "cosmoshub-sign-key"}

TEST_PUB_KEY_VALUE == Chars("ng+ab41LawVupIXX3ocMn+AfV2W1DEMCfjAdtrwXND8=")
\* another 32-byte key (the one of the comment at client.rs:77)
OTHER_PUB_KEY_VALUE == Chars("R5n8OFaknb/3sCTx/aegNzYukwVx0uNtzzK/2RclIOE=")
\* the test key followed by one more byte: 33 bytes
LONG_PUB_KEY_VALUE == Chars("ng+ab41LawVupIXX3ocMn+AfV2W1DEMCfjAdtrwXND8H")
\* the first 31 bytes of the test key
SHORT_PUB_KEY_VALUE == Chars("ng+ab41LawVupIXX3ocMn+AfV2W1DEMCfjAdtrwXNA==")

\* the test key without its padding
UNPADDED_PUB_KEY_VALUE == Chars("ng+ab41LawVupIXX3ocMn+AfV2W1DEMCfjAdtrwXND8")

\* one version of a key as transit/keys/<name> lists it
KeyEntry(alg, pubk) ==
    [name |-> Chars(alg), public_key |-> pubk,
     creation_time |-> Chars("2022-08-23T09:30:16.676998915Z")]

ED_TEST == KeyEntry("ed25519", TEST_PUB_KEY_VALUE)
ED_OTHER == KeyEntry("ed25519", OTHER_PUB_KEY_VALUE)
RSA_OTHER == KeyEntry("rsa-4096", OTHER_PUB_KEY_VALUE)

\* the "keys" object of the response, in the order the response lists it
PublicKeyMappings ==
    { <<>>,
      << <<1, ED_TEST>> >>,
      << <<1, ED_TEST>>, <<2, ED_OTHER>> >>,
      << <<2, ED_OTHER>>, <<1, ED_TEST>> >>,
      << <<10, ED_TEST>>, <<9, ED_OTHER>> >>,
      << <<1, ED_TEST>>, <<2, RSA_OTHER>> >>,
      << <<2, RSA_OTHER>>, <<1, ED_TEST>> >>,
      << <<1, RSA_OTHER>>, <<2, ED_TEST>> >>,
      << <<1, KeyEntry("ED25519", TEST_PUB_KEY_VALUE)>> >>,
      << <<1, [public_key |-> TEST_PUB_KEY_VALUE]>> >>,
      << <<1, [name |-> Chars("ed25519")]>> >>,
      << <<1, [creation_time |-> Chars("2022")]>> >>,
      << <<1, KeyEntry("ed25519", LONG_PUB_KEY_VALUE)>> >>,
      << <<1, KeyEntry("ed25519", SHORT_PUB_KEY_VALUE)>> >>,
      << <<1, KeyEntry("ed25519", Chars(""))>> >>,
      << <<1, KeyEntry("ed25519", UNPADDED_PUB_KEY_VALUE)>> >>,
      << <<1, KeyEntry("ed25519", Chars("not base64!"))>> >> }

PublicKeyResponses ==
    {TransportErr, EmptyResponse, NoData}
    \cup {WithData([keys |-> m]) : m \in PublicKeyMappings}

TEST_PAYLOAD_TO_SIGN == [i \in 1..20 |-> 113]

Messages == {<<>>, TEST_PAYLOAD_TO_SIGN, <<0>>}

TEST_SIGNATURE ==
    Chars("pNcc/FAUu+Ta7itVegaMUMGqXYkzE777y3kOe8AtdRTgLbA8eFnrKbbX/m7zoiC+vArsIUJ1aMCEDRjDK3ZsBg==")
\* another 64-byte signature (the one of the comment at client.rs:182)
OTHER_SIGNATURE ==
    Chars("/bcnnk4p8Uvidrs1/IX9s66UCOmmfdJudcV1/yek9a2deMiNGsVRSjirz6u+ti2wqUZfG6UukaoSHIDSSRV5Cw==")
\* the first 63 bytes of the test signature
SHORT_SIGNATURE ==
    Chars("pNcc/FAUu+Ta7itVegaMUMGqXYkzE777y3kOe8AtdRTgLbA8eFnrKbbX/m7zoiC+vArsIUJ1aMCEDRjDK3Zs")
\* the test signature followed by one more byte: 65 bytes
LONG_SIGNATURE ==
    Chars("pNcc/FAUu+Ta7itVegaMUMGqXYkzE777y3kOe8AtdRTgLbA8eFnrKbbX/m7zoiC+vArsIUJ1aMCEDRjDK3ZsBgE=")

\* the test signature without its padding
UNPADDED_SIGNATURE ==
    Chars("pNcc/FAUu+Ta7itVegaMUMGqXYkzE777y3kOe8AtdRTgLbA8eFnrKbbX/m7zoiC+vArsIUJ1aMCEDRjDK3ZsBg")

SignatureTags ==
    { Chars("vault:v1:") \o TEST_SIGNATURE,
      Chars("vault:v2:") \o OTHER_SIGNATURE,
      Chars("::") \o TEST_SIGNATURE,
      TEST_SIGNATURE,
      Chars("v1:") \o TEST_SIGNATURE,
      Chars("vault:v1:x:") \o TEST_SIGNATURE,
      Chars("vault:v1:") \o TEST_SIGNATURE \o Chars(":"),
      Chars("vault:not base64!"),
      Chars(""),
      Chars("vault:v1:") \o SHORT_SIGNATURE,
      Chars("vault:v1:") \o LONG_SIGNATURE,
      Chars("vault:v1:"),
      Chars("vault:v1:") \o UNPADDED_SIGNATURE,
      Chars("vault:v1:not base64!") }

SignResponses ==
    {TransportErr, EmptyResponse, NoData}
    \cup {WithData([signature |-> t]) : t \in SignatureTags}

WrappingKeyTexts ==
    { Chars("-----BEGIN PUBLIC KEY-----\nMIICIjANBgkq\nhkiG9w0B\n-----END PUBLIC KEY-----\n"),
      Chars("-----BEGIN PUBLIC KEY-----\r\nMIICIjANBgkq\r\n"),
      Chars("-----BEGIN PUBLIC KEY-----\n\nMIICIjANBgkq"),
      Chars("-----BEGIN PUBLIC KEY-----\n"),
      Chars("-----BEGIN PUBLIC KEY-----\nMIICIjANBgkq\r"),
      Chars("MIICIjANBgkq"),
      Chars("") }

WrappingKeyResponses ==
    {TransportErr, EmptyResponse, NoData}
    \cup {WithData([public_key |-> t]) : t \in WrappingKeyTexts}

ExportKeyTypes == {"encryption-key", "signing-key"}
ExportKeyNames == {"ephemeral-wrapping-key"}

ExportKeyMappings ==
    { <<>>,
      << <<1, Chars("a2V5LW9uZQ==")>> >>,
      << <<1, Chars("a2V5LW9uZQ==")>>, <<2, Chars("key two, no encoding")>> >>,
      << <<2, Chars("key two, no encoding")>>, <<1, Chars("a2V5LW9uZQ==")>> >>,
      << <<10, Chars("a2V5LW9uZQ==")>>, <<9, Chars("key two, no encoding")>> >> }

ExportKeyResponses ==
    {TransportErr, EmptyResponse, NoData}
    \cup {WithData([keys |-> m]) : m \in ExportKeyMappings}

----------------------------------------------------------------------------
(* The state: the client, what the transport has seen, the last call *)

NoRequest == [verb |-> "", path |-> "", body |-> None]

Init ==
    /\ app = NoApp
    /\ requests = [keys |-> 0, sign |-> 0, wrapping_key |-> 0, export |-> 0]
    /\ last_request = NoRequest
    /\ last = [op |-> "", args |-> <<>>, resp |-> NoResponse, ret |-> Ok(<<>>)]
    /\ calls = 0
    /\ first_public_key = None

\* what one call leaves behind: `o` is its outcome, `endpoint` names the
\* request counter, `request` is the request it issues if it issues one;
\* first_public_key keeps what the first public_key() that succeeded returned
Record(op, args, resp, o, endpoint, request) ==
    /\ app' = o.self
    /\ requests' = IF o.sent THEN [requests EXCEPT ![endpoint] = @ + 1]
                   ELSE requests
    /\ last_request' = IF o.sent THEN request ELSE last_request
    /\ last' = [op |-> op, args |-> args,
                resp |-> IF o.sent THEN resp ELSE NoResponse, ret |-> o.ret]
    /\ calls' = calls + 1
    /\ first_public_key' =
         IF op = "public_key" /\ o.ret.kind = "Ok" /\ ~first_public_key.some
           THEN Some(o.ret.value) ELSE first_public_key

Connect ==
    /\ ~app.connected
    /\ calls < MaxCalls
    /\ \E key_name \in KeyNames, client_new \in {"Ok", "Err"} :
         Record("connect", <<key_name>>, NoResponse,
                connect(key_name, client_new), "keys", NoRequest)

PublicKey ==
    /\ app.connected
    /\ calls < MaxCalls
    /\ \E resp \in PublicKeyResponses :
         Record("public_key", <<>>, resp, public_key(app, resp), "keys",
                [verb |-> "GET",
                 path |-> "transit/keys/" \o app.key_name,
                 body |-> None])

Sign ==
    /\ app.connected
    /\ calls < MaxCalls
    /\ \E message \in Messages, resp \in SignResponses :
         Record("sign", <<message>>, resp, sign(app, message, resp), "sign",
                [verb |-> "POST",
                 path |-> "transit/sign/" \o app.key_name,
                 body |-> Some([input |-> Base64Encode(message)])])

WrappingKey ==
    /\ app.connected
    /\ calls < MaxCalls
    /\ \E resp \in WrappingKeyResponses :
         Record("wrapping_key", <<>>, resp, wrapping_key(app, resp),
                "wrapping_key",
                [verb |-> "GET", path |-> "transit/wrapping_key",
                 body |-> None])

ExportKey ==
    /\ app.connected
    /\ calls < MaxCalls
    /\ \E key_type \in ExportKeyTypes, key_name \in ExportKeyNames,
          resp \in ExportKeyResponses :
         Record("export_key", <<key_type, key_name>>, resp,
                export_key(app, key_type, key_name, resp), "export",
                [verb |-> "GET",
                 path |-> "transit/export/" \o key_type \o "/" \o key_name,
                 body |-> None])

Next == Connect \/ PublicKey \/ Sign \/ WrappingKey \/ ExportKey

Spec == Init /\ [][Next]_vars

----------------------------------------------------------------------------
(* Properties *)

\* the step is a call of `op`
Called(op) == calls' = calls + 1 /\ last'.op = op

\* the last call was `op` and it consumed a response that carries data
Answered(op) == last.op = op /\ HasData(last.resp)

\* the entry of a response's mapping with the numerically greatest version
\* (the versions of one response differ)
Greatest(entries) ==
    entries[CHOOSE i \in 1..Len(entries) :
              \A j \in 1..Len(entries) : entries[j][1] <= entries[i][1]]

\* a connected client with an empty cache
Fresh == [connected |-> TRUE, key_name |-> "", public_key_value |-> None]

\* the 32 bytes of TEST_PUB_KEY_VALUE
TEST_PUB_KEY_BYTES ==
    <<158, 15, 154, 111, 141, 75, 107, 5, 110, 164, 133, 215, 222, 135, 12,
      159, 224, 31, 87, 101, 181, 12, 67, 2, 126, 48, 29, 182, 188, 23, 52, 63>>

\* the 64 bytes of TEST_SIGNATURE
TEST_SIGNATURE_BYTES ==
    <<164, 215, 28, 252, 80, 20, 187, 228, 218, 238, 43, 85, 122, 6, 140, 80,
      193, 170, 93, 137, 51, 19, 190, 251, 203, 121, 14, 123, 192, 45, 117,
      20, 224, 45, 176, 60, 120, 89, 235, 41, 182, 215, 254, 110, 243, 162,
      32, 190, 188, 10, 236, 33, 66, 117, 104, 192, 132, 13, 24, 195, 43,
      118, 108, 6>>

\* C1: once a public_key() call has succeeded with K, every later
\* public_key() call returns K and issues no request, whatever was called
\* in between and whatever the remote service would answer now.
C1_CachedKeyIsReturned ==
    [][(first_public_key.some /\ Called("public_key"))
         => /\ last'.ret = Ok(first_public_key.v)
            /\ requests' = requests
            /\ last_request' = last_request]_vars

\* C1 witness: a key was fetched, sign was called, and a later public_key()
\* returned the key without a request.
C1_Witness ==
    /\ last.op = "public_key" /\ last.resp = NoResponse
    /\ last.ret = Ok(TEST_PUB_KEY_BYTES)
    /\ requests.keys = 1 /\ requests.sign = 1

\* C2: sign of an empty message returns the empty-message error, issues no
\* request and leaves the client as it was, whatever the state of the cache.
C2_EmptyMessageRejected ==
    [][(Called("sign") /\ last'.args[1] = <<>>)
         => /\ last'.ret = Err("InvalidEmptyMessage")
            /\ requests' = requests
            /\ last_request' = last_request
            /\ app' = app]_vars

\* C2 witness: sign of an empty message on a client whose cache is
\* populated, after a sign request went out.
C2_Witness ==
    /\ last.op = "sign" /\ last.args[1] = <<>>
    /\ last.ret = Err("InvalidEmptyMessage")
    /\ app.public_key_value.some /\ requests.sign = 1

\* C3: when the public key of the latest entry decodes to fewer than 32
\* bytes, public_key() returns the InvalidPubKey error (no panic) and the
\* cache stays empty.
C3_ShortKeyFailsCleanly ==
    (/\ Answered("public_key")
     /\ last.resp.data.v.keys # <<>>
     /\ "public_key" \in DOMAIN Greatest(last.resp.data.v.keys)[2]
     /\ LET d == Base64Decode(Greatest(last.resp.data.v.keys)[2]["public_key"])
        IN d.kind = "Ok" /\ Len(d.value) < PUBLIC_KEY_SIZE)
    => /\ last.ret = Err("InvalidPubKey")
       /\ ~app.public_key_value.some

\* C4: for a non-empty message and a signature tag of three parts whose
\* third part decodes to 64 bytes, sign returns those 64 bytes, whatever the
\* first two parts are.
C4_SignReturnsDecodedSignature ==
    /\ (/\ Answered("sign")
        /\ Len(Split(last.resp.data.v.signature, ":")) = 3
        /\ LET d == Base64Decode(Split(last.resp.data.v.signature, ":")[3])
           IN d.kind = "Ok" /\ Len(d.value) = 64)
       => last.ret = Ok(Base64Decode(Split(last.resp.data.v.signature, ":")[3]).value)
    /\ (/\ Answered("sign")
        /\ last.resp.data.v.signature \in
             {Chars("vault:v1:") \o TEST_SIGNATURE, Chars("::") \o TEST_SIGNATURE})
       => last.ret = Ok(TEST_SIGNATURE_BYTES)

\* C4 witness: the test signature behind empty scheme and version parts.
C4_Witness ==
    /\ Answered("sign")
    /\ last.resp.data.v.signature = Chars("::") \o TEST_SIGNATURE
    /\ last.args[1] = TEST_PAYLOAD_TO_SIGN
    /\ last.ret = Ok(TEST_SIGNATURE_BYTES)

\* C5: for a non-empty message, sign returns the InvalidSignature error
\* (and no bytes) when the tag has not exactly three parts, whatever the
\* parts hold, or when its third part decodes to other than 64 bytes.
C5_MalformedSignatureRejected ==
    (/\ Answered("sign")
     /\ LET parts == Split(last.resp.data.v.signature, ":")
        IN \/ Len(parts) # 3
           \/ LET d == Base64Decode(parts[3])
              IN d.kind = "Ok" /\ Len(d.value) # 64)
    => last.ret = Err("InvalidSignature")

\* C5 witness: a three-part tag whose third part decodes to 65 bytes.
C5_Witness ==
    /\ Answered("sign")
    /\ last.resp.data.v.signature = Chars("vault:v1:") \o LONG_SIGNATURE
    /\ last.ret = Err("InvalidSignature")

\* C6: public_key() answers as it would for the entry of the greatest
\* version alone, export_key() returns the material of that entry, in
\* whatever order the response lists the versions; an empty mapping gives
\* the InvalidPubKey error in both.
C6_LatestVersionSelected ==
    /\ (Answered("public_key") /\ last.resp.data.v.keys # <<>>)
       => last.ret = public_key_fetch(
                         Fresh,
                         WithData([keys |-> <<Greatest(last.resp.data.v.keys)>>])).ret
    /\ (Answered("export_key") /\ last.resp.data.v.keys # <<>>)
       => last.ret = Ok(Greatest(last.resp.data.v.keys)[2])
    /\ ((Answered("public_key") \/ Answered("export_key"))
        /\ last.resp.data.v.keys = <<>>)
       => last.ret = Err("InvalidPubKey")

\* C6 witness: version 10 listed before version 9, public_key() returns the
\* key of version 10.
C6_Witness ==
    /\ Answered("public_key")
    /\ last.resp.data.v.keys = << <<10, ED_TEST>>, <<9, ED_OTHER>> >>
    /\ last.ret = Ok(TEST_PUB_KEY_BYTES)

\* the latest entry of the response names no key type or another one
WrongKeyType(resp) ==
    /\ HasData(resp) /\ resp.data.v.keys # <<>>
    /\ LET map == Greatest(resp.data.v.keys)[2]
       IN "name" \notin DOMAIN map \/ map["name"] # Chars("ed25519")

\* C7: a public_key() call that returns an error leaves the cache empty;
\* the cache changes only in a call that succeeds and then holds the 32
\* bytes returned; a latest entry of another (or no) key type gives the
\* InvalidPubKey error and an empty cache, also when an older entry has the
\* expected type.
C7_CachePopulatedOnlyOnSuccess ==
    [][Called("public_key")
         => /\ last'.ret.kind = "Err" => ~app'.public_key_value.some
            /\ app'.public_key_value # app.public_key_value
                 => /\ last'.ret = Ok(app'.public_key_value.v)
                    /\ Len(app'.public_key_value.v) = 32
            /\ last'.ret.kind = "Ok" => app'.public_key_value = Some(last'.ret.value)
            /\ WrongKeyType(last'.resp)
                 => /\ last'.ret = Err("InvalidPubKey")
                    /\ ~app'.public_key_value.some]_vars

\* C7 witness: the latest version is an RSA key, an older one is ed25519.
C7_Witness ==
    /\ Answered("public_key")
    /\ last.resp.data.v.keys = << <<1, ED_TEST>>, <<2, RSA_OTHER>> >>
    /\ last.ret = Err("InvalidPubKey")
    /\ ~app.public_key_value.some

\* C8 as stated: the transport sees at most one read of keys/<key name> in
\* the life of a client.
C8_AtMostOneRead == requests.keys <= 1

\* C8 amended: once a public_key() call has succeeded no read of
\* keys/<key name> is issued again; a call that fails leaves the next call
\* to read again.
C8_NoReadAfterSuccess ==
    [][first_public_key.some => requests'.keys = requests.keys]_vars

\* C8 witness: a read that failed, a read that succeeded, and a third
\* public_key() call that read nothing.
C8_Witness ==
    /\ first_public_key.some
    /\ requests.keys = 2
    /\ last.op = "public_key" /\ last.resp = NoResponse /\ last.ret.kind = "Ok"

\* C9: sign, wrapping_key and export_key leave the client as it is; connect
\* gives a client with an empty cache; the cache is written only by
\* public_key(), only while it is empty, and the key name stays what
\* connect stored.
C9_CacheAndKeyNameFrame ==
    [][/\ (Called("sign") \/ Called("wrapping_key") \/ Called("export_key"))
            => app' = app
       /\ (Called("connect") /\ last'.ret.kind = "Ok")
            => /\ app'.public_key_value = None
               /\ app'.key_name = last'.args[1]
       /\ app.connected => (app'.connected /\ app'.key_name = app.key_name)
       /\ app'.public_key_value # app.public_key_value
            => (Called("public_key") /\ ~app.public_key_value.some)]_vars

\* C9 witness: export_key succeeded for another key name on a client whose
\* cache is populated.
C9_Witness ==
    /\ last.op = "export_key" /\ last.ret.kind = "Ok"
    /\ last.args[2] # app.key_name
    /\ app.public_key_value.some

\* a response envelope without data
DataAbsent(resp) == resp.kind = "VaultResponse" /\ ~resp.data.some

\* C10: a response without data is an error in every operation:
\* InvalidPubKey from public_key() (the cache stays empty), wrapping_key()
\* and export_key(), NoSignature from sign of a non-empty message.
C10_AbsentDataIsAnError ==
    DataAbsent(last.resp)
    => /\ last.ret.kind = "Err"
       /\ last.op \in {"public_key", "wrapping_key", "export_key"}
            => last.ret = Err("InvalidPubKey")
       /\ last.op = "public_key" => ~app.public_key_value.some
       /\ last.op = "sign" => last.ret = Err("NoSignature")

\* C10 witness: sign of a non-empty message answered without data.
C10_Witness ==
    /\ last.op = "sign" /\ DataAbsent(last.resp)
    /\ last.args[1] # <<>>
    /\ last.ret = Err("NoSignature")

====
